---- MODULE Spec2Model ----
(***************************************************************************)
(* Model of src/index.py: a single-endpoint Flask gateway (POST /) that    *)
(* forwards the 'txt' field of a JSON body to the Gemini generate_content  *)
(* call and wraps the outcome in a {status, data | message} envelope.      *)
(*                                                                         *)
(* Python strings of the request are sequences of characters over a small  *)
(* alphabet; "S" stands for a lone UTF-16 surrogate (the JSON escape       *)
(* \ud800), which json.loads accepts and a UTF-8 stdout cannot encode.     *)
(* Texts and messages coming from the upstream service are opaque strings. *)
(***************************************************************************)
EXTENDS Integers, Sequences, FiniteSets, TLC

VARIABLES client, flask415, schema, pc, body, calls, log, resp, outcome, caught

vars == <<client, flask415, schema, pc, body, calls, log, resp, outcome, caught>>

----------------------------------------------------------------------------
(* Bounds of the model *)

MaxStrLen == 3          \* longest request string enumerated
NumReqs == 2            \* requests in flight at once in ConcSpec

(* Program constants *)

PREVIEW_LEN == 100      \* txt[:100]
HTTP_DEFAULT == 200     \* status of a bare jsonify(...) return
HTTP_BAD_REQUEST == 400
HTTP_SERVER_ERROR == 500

Reqs == 1..NumReqs
Alphabet == {"t", "x", "S"}
Strings == UNION {[1..n -> Alphabet] : n \in 0..MaxStrLen}
Min(a, b) == IF a < b THEN a ELSE b

----------------------------------------------------------------------------
(* Python values as json.loads produces them: [t |-> type, v |-> payload]. *)
(* A dict is the sequence of its <<key, value>> pairs.                     *)

PyNone == [t |-> "NoneType", v |-> <<>>]
PyBool(b) == [t |-> "bool", v |-> b]
PyInt(n) == [t |-> "int", v |-> n]
PyStr(s) == [t |-> "str", v |-> s]
PyList(items) == [t |-> "list", v |-> items]
PyDict(pairs) == [t |-> "dict", v |-> pairs]

TXT == <<"t", "x", "t">>          \* the key 'txt'
OTHER_KEY == <<"x">>              \* some other key

Scalars ==
    {PyNone, PyBool(TRUE), PyBool(FALSE), PyInt(0), PyInt(5)}
        \cup {PyStr(s) : s \in Strings}

\* values the 'txt' member of the body can carry
TxtValues ==
    Scalars \cup {PyList(<<>>), PyList(<<PyInt(5)>>),
                  PyDict(<<>>), PyDict(<< <<OTHER_KEY, PyInt(1)>> >>)}

\* values a JSON body can parse to
JsonValues ==
    Scalars
        \cup {PyList(<<>>), PyList(<<PyStr(TXT)>>), PyList(<<PyInt(5)>>)}
        \cup {PyDict(<<>>), PyDict(<< <<OTHER_KEY, PyInt(5)>> >>)}
        \cup {PyDict(<< <<TXT, v>> >>) : v \in TxtValues}
        \cup {PyDict(<< <<OTHER_KEY, PyInt(5)>>, <<TXT, v>> >>) : v \in TxtValues}

\* An HTTP request body: its mimetype is JSON or not, its bytes parse or not.
Body(is_json, malformed, value) ==
    [is_json |-> is_json, malformed |-> malformed, value |-> value]

Bodies ==
    {Body(FALSE, FALSE, PyDict(<< <<TXT, PyStr(<<"t">>)>> >>)),
     Body(FALSE, TRUE, PyNone),
     Body(TRUE, TRUE, PyNone)}
        \cup {Body(TRUE, FALSE, v) : v \in JsonValues}

----------------------------------------------------------------------------
(* Exceptions: type, str(e), e.message (APIError only) and the traceback   *)
(* that traceback.print_exc() prints.                                      *)

Exc(type, str) ==
    [type |-> type, str |-> str, message |-> "",
     trace |-> "Traceback (most recent call last): " \o type \o ": " \o str]

APIError(code, message) ==
    [type |-> "APIError", str |-> code \o " " \o message, message |-> message,
     trace |-> "Traceback (most recent call last): APIError: " \o code \o " " \o message]

NoExc == [type |-> "", str |-> "", message |-> "", trace |-> ""]

Return(value) == [raised |-> FALSE, exc |-> NoExc, value |-> value]
Raise(exc) == [raised |-> TRUE, exc |-> exc, value |-> PyNone]

----------------------------------------------------------------------------
(* Python operations the handler applies to the parsed body *)

\* bool(v), as `not data` uses it
Truthy(v) ==
    CASE v.t = "NoneType" -> FALSE
      [] v.t = "bool" -> v.v
      [] v.t = "int" -> v.v # 0
      [] OTHER -> Len(v.v) > 0

Substring(p, s) ==
    \E i \in 0..(Len(s) - Len(p)) : SubSeq(s, i + 1, i + Len(p)) = p

HasKey(d, key) == \E i \in 1..Len(d.v) : d.v[i][1] = key

\* `key in d`: membership in a dict's keys, a list's items, a str's substrings
PyIn(key, d) ==
    CASE d.t = "dict" -> Return(PyBool(HasKey(d, key)))
      [] d.t = "list" -> Return(PyBool(\E i \in 1..Len(d.v) : d.v[i] = PyStr(key)))
      [] d.t = "str" -> Return(PyBool(Substring(key, d.v)))
      [] OTHER -> Raise(Exc("TypeError", "argument of type '" \o d.t \o "' is not iterable"))

\* d[key] with a str key
PyGetItem(d, key) ==
    CASE d.t = "dict" ->
            IF HasKey(d, key)
            THEN Return(d.v[CHOOSE i \in 1..Len(d.v) : d.v[i][1] = key][2])
            ELSE Raise(Exc("KeyError", "'txt'"))
      [] d.t = "list" -> Raise(Exc("TypeError", "list indices must be integers or slices, not str"))
      [] d.t = "str" -> Raise(Exc("TypeError", "string indices must be integers, not 'str'"))
      [] OTHER -> Raise(Exc("TypeError", "'" \o d.t \o "' object is not subscriptable"))

\* len(v)
PyLen(v) ==
    IF v.t \in {"str", "list", "dict"}
    THEN Return(PyInt(Len(v.v)))
    ELSE Raise(Exc("TypeError", "object of type '" \o v.t \o "' has no len()"))

\* v[:n]
PySlice(v, n) ==
    CASE v.t \in {"str", "list"} -> Return([t |-> v.t, v |-> SubSeq(v.v, 1, Min(Len(v.v), n))])
      [] v.t = "dict" -> Raise(Exc("TypeError", "unhashable type: 'slice'"))
      [] OTHER -> Raise(Exc("TypeError", "'" \o v.t \o "' object is not subscriptable"))

\* print(text) on a UTF-8 stdout: a lone surrogate in the text cannot be encoded.
\* (Inside a list or dict the f-string formats a str by its repr, which escapes it.)
Encodable(v) == v.t = "str" => \A i \in 1..Len(v.v) : v.v[i] # "S"

\* Flask request.get_json() with its default arguments (force=False, silent=False).
\* Whether a non-JSON mimetype yields None or raises 415 depends on the installed
\* Flask (>= 2.1 raises); the repository pins no version.
GetJson(raises415, b) ==
    IF ~b.is_json
    THEN IF raises415
         THEN Raise(Exc("UnsupportedMediaType", "415 Unsupported Media Type: Did not attempt to load JSON data because the request Content-Type was not 'application/json'."))
         ELSE Return(PyNone)
    ELSE IF b.malformed
         THEN Raise(Exc("BadRequest", "400 Bad Request: The browser (or proxy) sent a request that this server could not understand."))
         ELSE Return(b.value)

----------------------------------------------------------------------------
(* Module-level state set at import time *)

\* os.environ.get('GEMINI_API_KEY'): unset (None), set to "", or set to a key
EnvKeys == {PyNone, PyStr(<<>>), PyStr(<<"x">>)}

\* if not API_KEY: client = None  else: client = genai.Client(api_key=API_KEY)
InitClient(API_KEY) == IF ~Truthy(API_KEY) THEN "None" ELSE "Client"

NPC_RESPONSE_SCHEMA ==
    [type |-> "OBJECT",
     properties |-> [text |-> "STRING", newIntimacy |-> "INTEGER",
                     newEmotion |-> "STRING", newTask |-> "STRING",
                     endChat |-> "BOOLEAN", newDestination |-> "STRING",
                     selectedTool |-> "STRING"],
     required |-> <<"text", "newIntimacy", "newEmotion", "newTask", "endChat",
                    "newDestination", "selectedTool">>]

\* the fixed policy text of the handler (abridged to its eight clauses)
SYSTEM_INSTRUCTION ==
    "NPC;guidelines;persona;strict-JSON;endChat;newDestination;selectedTool;no-name"

MODEL_NAME == "gemini-2.5-flash"

\* types.GenerateContentConfig(...) and the arguments of generate_content
GenerateContentCall(txt, sch) ==
    [model |-> MODEL_NAME,
     contents |-> txt,
     config |-> [system_instruction |-> SYSTEM_INSTRUCTION,
                 response_mime_type |-> "application/json",
                 response_schema |-> sch]]

----------------------------------------------------------------------------
(* What the upstream call can do: return a response whose .text is a       *)
(* string or None, raise APIError, or raise anything else.                 *)

Texts == {"{text:hi,newIntimacy:5,newEmotion:joy,newTask:none,endChat:false,newDestination:none,selectedTool:none}",
          "not json"}

Outcome(kind, text, exc) == [kind |-> kind, text |-> text, exc |-> exc]
NoOutcome == Outcome("none", "", NoExc)

Outcomes ==
    {Outcome("text", t, NoExc) : t \in Texts}
        \cup {Outcome("notext", "", NoExc)}
        \cup {Outcome("raise", "", APIError("429", "quota exceeded")),
              Outcome("raise", "", APIError("400", "invalid request")),
              Outcome("raise", "", Exc("ReadTimeout", "The read operation timed out"))}

----------------------------------------------------------------------------
(* Responses: jsonify(envelope) with an HTTP status.  A JSON string member *)
(* of the envelope is the node JsonString(s); None serialises to null.     *)

JsonString(s) == [t |-> "string", v |-> s]
JsonNull == [t |-> "null", v |-> ""]
JsonObject(s) == [t |-> "object", v |-> s]      \* what json.loads(s) would nest

Response(http, envelope) == [http |-> http, envelope |-> envelope]
NoResp == Response(0, [status |-> "NONE"])

NotInitialized ==
    Response(HTTP_DEFAULT,
             [status |-> "ERROR", message |-> "API client is not initialized (Missing API Key)."])

MissingTxt ==
    Response(HTTP_BAD_REQUEST,
             [status |-> "ERROR", message |-> "Missing 'txt' field in JSON request body."])

Success(json_text) ==
    Response(HTTP_DEFAULT, [status |-> "OK", data |-> json_text])

\* the message built from str(e), as the log line is, instead of e.message
ApiErrorResponseStr(e) ==
    Response(HTTP_SERVER_ERROR,
             [status |-> "ERROR", message |-> "Gemini API Error: " \o e.str])

ApiErrorResponse(e) ==
    Response(HTTP_SERVER_ERROR,
             [status |-> "ERROR", message |-> "Gemini API Error: " \o e.message])

\* the message built from traceback.format_exc() instead of str(e)
UnexpectedResponseTrace(e) ==
    Response(HTTP_SERVER_ERROR,
             [status |-> "ERROR", message |-> "Unexpected Error: " \o e.trace])

UnexpectedResponse(e) ==
    Response(HTTP_SERVER_ERROR,
             [status |-> "ERROR", message |-> "Unexpected Error: " \o e.str])

\* what Flask itself answers when a view lets an exception escape
FlaskErrorPage == Response(HTTP_SERVER_ERROR, [html |-> "Internal Server Error"])

----------------------------------------------------------------------------
(* Server log lines *)

LogLine(stream, kind, text) ==
    [stream |-> stream, kind |-> kind, text |-> text, length |-> 0, preview |-> PyNone]

\* print(f"Received prompt (length {len(txt)}): {txt[:100]}...")
LogPrompt(n, preview) ==
    [stream |-> "stdout", kind |-> "prompt", text |-> "Received prompt", length |-> n,
     preview |-> preview]

----------------------------------------------------------------------------
(* chat_handler.  The handler runs from the request to the upstream call   *)
(* (its only suspension point) and from the call's outcome to the          *)
(* response.  A step yields where the request stands next, the response,   *)
(* the log lines written, the upstream calls issued and the exception an   *)
(* except clause caught, if any.                                           *)

Responded(r, lg) ==
    [next |-> "done", resp |-> r, log |-> lg, calls |-> <<>>, caught |-> NoExc]
Calling(call, lg) ==
    [next |-> "calling", resp |-> NoResp, log |-> lg, calls |-> <<call>>, caught |-> NoExc]

\* except APIError as e: ...
HandleAPIError(e, lg) ==
    [Responded(ApiErrorResponse(e),
               lg \o <<LogLine("stdout", "api_error", "API Error: " \o e.str)>>)
        EXCEPT !.caught = e]

\* the same clause re-raising after it has logged
HandleExceptionReraise(e, lg) ==
    [Responded(FlaskErrorPage, lg \o <<LogLine("stderr", "traceback", e.trace)>>)
        EXCEPT !.caught = e]

\* except Exception as e: ...
HandleException(e, lg) ==
    [Responded(UnexpectedResponse(e),
               lg \o <<LogLine("stdout", "banner", "--- UNEXPECTED INTERNAL SERVER ERROR ---"),
                       LogLine("stderr", "traceback", e.trace),
                       LogLine("stdout", "banner", "----------------------------------------")>>)
        EXCEPT !.caught = e]

\* the except clauses of the try block, in order
Except(e, lg) ==
    IF e.type = "APIError" THEN HandleAPIError(e, lg) ELSE HandleException(e, lg)

\* a presence check that also wants a non-empty value: not data.get('txt')
FieldPresentNonEmpty(data) ==
    LET has == PyIn(TXT, data)
    IN  IF ~has.raised /\ has.value.v /\ data.t = "dict"
        THEN Return(PyBool(Truthy(PyGetItem(data, TXT).value)))
        ELSE has

\* a presence check that also wants a string: isinstance(data.get('txt'), str)
FieldPresentString(data) ==
    LET has == PyIn(TXT, data)
    IN  IF ~has.raised /\ has.value.v /\ data.t = "dict"
        THEN Return(PyBool(PyGetItem(data, TXT).value.t = "str"))
        ELSE has

\* 'txt' in data
FieldPresent(data) == PyIn(TXT, data)

\* txt = data['txt']; print(...); config = ...; client.models.generate_content(...)
LogAndCall(txt, sch) ==
    LET n == PyLen(txt)
        pv == PySlice(txt, PREVIEW_LEN)
    IN  IF n.raised THEN Except(n.exc, <<>>)
        ELSE IF pv.raised THEN Except(pv.exc, <<>>)
        ELSE IF ~Encodable(pv.value)
             THEN Except(Exc("UnicodeEncodeError",
                             "'utf-8' codec can't encode character '\\ud800': surrogates not allowed"),
                         <<>>)
        ELSE Calling(GenerateContentCall(txt, sch), <<LogPrompt(n.value.v, pv.value)>>)

\* the try block up to the upstream call
Validate(raises415, sch, b) ==
    LET got == GetJson(raises415, b)
        data == got.value
        has == FieldPresent(data)
        item == PyGetItem(data, TXT)
    IN  IF got.raised THEN Except(got.exc, <<>>)
        ELSE IF ~Truthy(data) THEN Responded(MissingTxt, <<>>)
        ELSE IF has.raised THEN Except(has.exc, <<>>)
        ELSE IF ~has.value.v THEN Responded(MissingTxt, <<>>)
        ELSE IF item.raised THEN Except(item.exc, <<>>)
        ELSE LogAndCall(item.value, sch)

\* the handler with the client check moved behind the validation
HandlerBeginValidateFirst(c, raises415, sch, b) ==
    LET v == Validate(raises415, sch, b)
    IN  IF v.next = "done" THEN v
        ELSE IF c = "None" THEN Responded(NotInitialized, <<>>) ELSE v

\* chat_handler from its entry to the upstream call or an early return
HandlerBegin(c, raises415, sch, b) ==
    IF c = "None" THEN Responded(NotInitialized, <<>>) ELSE Validate(raises415, sch, b)

\* the text parsed and nested: json.loads(api_response.text)
ResponseTextParsed(o) == IF o.kind = "text" THEN JsonObject(o.text) ELSE JsonNull

\* json_text = api_response.text
ResponseText(o) == IF o.kind = "text" THEN JsonString(o.text) ELSE JsonNull

\* chat_handler from the outcome of the upstream call to its return
HandlerResume(o, lg) ==
    IF o.kind = "raise" THEN Except(o.exc, lg) ELSE Responded(Success(ResponseText(o)), lg)

\* a handler that drops the client once a request has failed with HTTP 500
ClientAfterDropOnError(c, r) == IF r.http = HTTP_SERVER_ERROR THEN "None" ELSE c

\* the handler reads the module-level client and never assigns it
ClientAfter(c, r) == c

----------------------------------------------------------------------------
(* State machine *)

NoBody == Body(FALSE, FALSE, PyNone)

TypeOK ==
    /\ client \in {"None", "Client"}
    /\ flask415 \in BOOLEAN
    /\ pc \in [Reqs -> {"idle", "calling", "done"}]

Init ==
    /\ client \in {InitClient(k) : k \in EnvKeys}
    /\ flask415 \in BOOLEAN
    /\ schema = NPC_RESPONSE_SCHEMA
    /\ pc = [r \in Reqs |-> "idle"]
    /\ body = [r \in Reqs |-> NoBody]
    /\ calls = [r \in Reqs |-> <<>>]
    /\ log = [r \in Reqs |-> <<>>]
    /\ resp = [r \in Reqs |-> NoResp]
    /\ outcome = [r \in Reqs |-> NoOutcome]
    /\ caught = [r \in Reqs |-> NoExc]

\* POST / arrives with body b and is handled up to the upstream call
Receive(r, b) ==
    /\ pc[r] = "idle"
    /\ LET res == HandlerBegin(client, flask415, schema, b)
       IN  /\ pc' = [pc EXCEPT ![r] = res.next]
           /\ body' = [body EXCEPT ![r] = b]
           /\ calls' = [calls EXCEPT ![r] = res.calls]
           /\ log' = [log EXCEPT ![r] = res.log]
           /\ resp' = [resp EXCEPT ![r] = res.resp]
           /\ caught' = [caught EXCEPT ![r] = res.caught]
           /\ client' = ClientAfter(client, res.resp)
    /\ UNCHANGED <<flask415, schema, outcome>>

\* the pending generate_content call of request r ends with outcome o
UpstreamResponds(r, o) ==
    /\ pc[r] = "calling"
    /\ LET res == HandlerResume(o, log[r])
       IN  /\ pc' = [pc EXCEPT ![r] = res.next]
           /\ calls' = [calls EXCEPT ![r] = calls[r] \o res.calls]
           /\ log' = [log EXCEPT ![r] = res.log]
           /\ resp' = [resp EXCEPT ![r] = res.resp]
           /\ caught' = [caught EXCEPT ![r] = res.caught]
           /\ client' = ClientAfter(client, res.resp)
    /\ outcome' = [outcome EXCEPT ![r] = o]
    /\ UNCHANGED <<flask415, schema, body>>

\* the response of request r has gone out; the slot takes the next request
Deliver(r) ==
    /\ pc[r] = "done"
    /\ pc' = [pc EXCEPT ![r] = "idle"]
    /\ body' = [body EXCEPT ![r] = NoBody]
    /\ calls' = [calls EXCEPT ![r] = <<>>]
    /\ log' = [log EXCEPT ![r] = <<>>]
    /\ resp' = [resp EXCEPT ![r] = NoResp]
    /\ outcome' = [outcome EXCEPT ![r] = NoOutcome]
    /\ caught' = [caught EXCEPT ![r] = NoExc]
    /\ UNCHANGED <<client, flask415, schema>>

\* one request at a time, every body
Next ==
    \/ \E b \in Bodies : Receive(1, b)
    \/ \E o \in Outcomes : UpstreamResponds(1, o)
    \/ Deliver(1)

Spec == Init /\ [][Next]_vars

\* NumReqs requests in flight, one body for each path through the handler
ConcBodies ==
    {Body(TRUE, TRUE, PyNone),
     Body(TRUE, FALSE, PyDict(<<>>)),
     Body(TRUE, FALSE, PyDict(<< <<TXT, PyInt(5)>> >>)),
     Body(TRUE, FALSE, PyDict(<< <<TXT, PyStr(<<"t">>)>> >>)),
     Body(TRUE, FALSE, PyDict(<< <<TXT, PyStr(<<"x">>)>> >>))}

ConcNext ==
    \E r \in Reqs :
        \/ \E b \in ConcBodies : Receive(r, b)
        \/ \E o \in Outcomes : UpstreamResponds(r, o)
        \/ Deliver(r)

ConcSpec == Init /\ [][ConcNext]_vars

----------------------------------------------------------------------------
(* Vocabulary of the properties *)

Handled(r) == pc[r] # "idle"
Done(r) == pc[r] = "done"

\* the body is a JSON document: JSON mimetype and bytes that parse
IsJson(b) == b.is_json /\ ~b.malformed

\* the body is a JSON object with a 'txt' member
HasTxt(b) == IsJson(b) /\ b.value.t = "dict" /\ \E i \in 1..Len(b.value.v) : b.value.v[i][1] = TXT

TxtOf(b) == b.value.v[CHOOSE i \in 1..Len(b.value.v) : b.value.v[i][1] = TXT][2]

PromptLogged(r) == \E i \in 1..Len(log[r]) : log[r][i].kind = "prompt"

TraceLogged(r, e) ==
    \E i \in 1..Len(log[r]) : log[r][i].kind = "traceback" /\ log[r][i].text = e.trace

MissingTxtReply ==
    [http |-> 400,
     envelope |-> [status |-> "ERROR", message |-> "Missing 'txt' field in JSON request body."]]

NotInitializedReply ==
    [http |-> 200,
     envelope |-> [status |-> "ERROR",
                   message |-> "API client is not initialized (Missing API Key)."]]

UnexpectedReply(e) ==
    [http |-> 500, envelope |-> [status |-> "ERROR", message |-> "Unexpected Error: " \o e.str]]

GeminiErrorReply(e) ==
    [http |-> 500, envelope |-> [status |-> "ERROR", message |-> "Gemini API Error: " \o e.message]]

ExpectedCall(txt) ==
    [model |-> "gemini-2.5-flash",
     contents |-> txt,
     config |-> [system_instruction |-> SYSTEM_INSTRUCTION,
                 response_mime_type |-> "application/json",
                 response_schema |-> NPC_RESPONSE_SCHEMA]]

----------------------------------------------------------------------------
(* C1: with the client initialized, every handled request whose body is    *)
(* not a JSON document or lacks the 'txt' member is answered with HTTP 400 *)
(* and the missing-'txt' envelope, and no upstream call is made.           *)
(* Refuted: a malformed JSON body makes get_json raise, and the handler    *)
(* answers 500 "Unexpected Error: 400 Bad Request ...".                    *)
C1_MissingTxtAnswered400 ==
    \A r \in Reqs :
        (client = "Client" /\ Handled(r) /\ ~HasTxt(body[r]))
            => /\ Done(r)
               /\ resp[r] = MissingTxtReply
               /\ calls[r] = <<>>

(* C2 as claimed: every handled request whose 'txt' is absent or is the    *)
(* empty string is rejected before the prompt is logged and before any     *)
(* upstream call is made.                                                   *)
C2_EmptyOrAbsentRejected ==
    \A r \in Reqs :
        (Handled(r) /\ (~HasTxt(body[r]) \/ TxtOf(body[r]) = PyStr(<<>>)))
            => /\ ~PromptLogged(r)
               /\ calls[r] = <<>>
               /\ Done(r) /\ resp[r].envelope.status = "ERROR"

(* C2 as amended: a request whose 'txt' is absent is rejected (an ERROR    *)
(* envelope) before the prompt is logged and before any upstream call; a   *)
(* request whose 'txt' is the empty string is not rejected: with the       *)
(* client initialized its prompt is logged with length 0 and exactly one   *)
(* upstream call carries it.                                               *)
C2_AbsentRejectedEmptyForwarded ==
    \A r \in Reqs :
        /\ (Handled(r) /\ ~HasTxt(body[r]))
              => /\ ~PromptLogged(r)
                 /\ calls[r] = <<>>
                 /\ Done(r) /\ resp[r].envelope.status = "ERROR"
        /\ (Handled(r) /\ client = "Client" /\ HasTxt(body[r]) /\ TxtOf(body[r]) = PyStr(<<>>))
              => /\ Len(log[r]) >= 1 /\ log[r][1] = LogPrompt(0, PyStr(<<>>))
                 /\ calls[r] = <<ExpectedCall(PyStr(<<>>))>>

C2_Witness ==
    \E r \in Reqs :
        /\ Done(r) /\ HasTxt(body[r]) /\ TxtOf(body[r]) = PyStr(<<>>)
        /\ PromptLogged(r) /\ Len(calls[r]) = 1 /\ outcome[r].kind = "text"

(* C3: with the client initialized, handling a request with a present,     *)
(* non-empty string 'txt' makes exactly one upstream call, carrying that   *)
(* txt with the fixed system instruction and schema, whether the call is   *)
(* pending, returned or raised.                                            *)
(* Refuted: a txt holding a lone surrogate makes the prompt-logging print  *)
(* raise UnicodeEncodeError, and no call is made.                          *)
C3_ExactlyOneUpstreamCall ==
    \A r \in Reqs :
        (client = "Client" /\ Handled(r) /\ HasTxt(body[r])
            /\ TxtOf(body[r]).t = "str" /\ Len(TxtOf(body[r]).v) > 0)
            => calls[r] = <<ExpectedCall(TxtOf(body[r]))>>

(* C4: when the upstream call returns text T, the response is HTTP 200     *)
(* with exactly the members status "OK" and data, data being the JSON      *)
(* string T itself: not parsed, not nested, and with no message member.    *)
C4_SuccessWrapsTextUnmodified ==
    \A r \in Reqs :
        (Done(r) /\ outcome[r].kind = "text")
            => resp[r] = [http |-> 200,
                          envelope |-> [status |-> "OK",
                                        data |-> [t |-> "string", v |-> outcome[r].text]]]

C4_Witness ==
    \E r \in Reqs :
        /\ Done(r) /\ outcome[r].kind = "text" /\ resp[r].http = 200
        /\ resp[r].envelope.data.v \in Texts

(* C5: when the upstream call raises APIError with message M, the response *)
(* is HTTP 500 with exactly the members status "ERROR" and message         *)
(* "Gemini API Error: " + M, and no data member.                           *)
C5_ApiErrorMapped ==
    \A r \in Reqs :
        (Done(r) /\ outcome[r].kind = "raise" /\ outcome[r].exc.type = "APIError")
            => resp[r] = [http |-> 500,
                          envelope |-> [status |-> "ERROR",
                                        message |-> "Gemini API Error: " \o outcome[r].exc.message]]

C5_Witness ==
    \E r \in Reqs :
        /\ Done(r) /\ outcome[r].kind = "raise" /\ outcome[r].exc.message = "quota exceeded"
        /\ resp[r].envelope.message = "Gemini API Error: quota exceeded"

(* C6: when handling raises an exception other than APIError, in the       *)
(* upstream call or before it, the response is HTTP 500 with message       *)
(* "Unexpected Error: " followed by str(e) only; the traceback goes to the *)
(* server log and is not in the response.                                  *)
C6_UnexpectedErrorMapped ==
    \A r \in Reqs :
        /\ (Done(r) /\ caught[r].type \notin {"", "APIError"})
              => /\ resp[r] = UnexpectedReply(caught[r])
                 /\ TraceLogged(r, caught[r])
                 /\ resp[r].envelope.message # "Unexpected Error: " \o caught[r].trace
        /\ (Done(r) /\ outcome[r].kind = "raise" /\ outcome[r].exc.type # "APIError")
              => caught[r] = outcome[r].exc

C6_Witness ==
    \E r \in Reqs :
        /\ Done(r) /\ outcome[r].kind = "raise" /\ outcome[r].exc.type = "ReadTimeout"
        /\ resp[r].http = 500

(* C7: when the client is None, every request, whatever its body, is       *)
(* answered at once with the not-initialized envelope and HTTP 200; no     *)
(* upstream call is made and the body is never validated (nothing is       *)
(* caught or logged).                                                      *)
C7_NotInitializedFirst ==
    \A r \in Reqs :
        (client = "None" /\ Handled(r))
            => /\ Done(r)
               /\ resp[r] = NotInitializedReply
               /\ calls[r] = <<>>
               /\ log[r] = <<>>
               /\ caught[r] = NoExc

C7_Witness ==
    \E r \in Reqs : client = "None" /\ Done(r) /\ body[r].is_json /\ body[r].malformed

(* C8: every request is either waiting on its one upstream call or has     *)
(* exactly one response, and that response is one of the five envelope     *)
(* forms; no exception leaves the handler.                                 *)
C8_UniformEnvelope ==
    \A r \in Reqs :
        /\ Handled(r) => (Done(r) \/ (pc[r] = "calling" /\ Len(calls[r]) = 1))
        /\ ~Done(r) => resp[r] = NoResp
        /\ Done(r) =>
              \/ /\ resp[r].http = 200
                 /\ DOMAIN resp[r].envelope = {"status", "data"}
                 /\ resp[r].envelope.status = "OK"
              \/ resp[r] = MissingTxtReply
              \/ /\ caught[r].type = "APIError"
                 /\ resp[r] = GeminiErrorReply(caught[r])
              \/ /\ caught[r].type \notin {"", "APIError"}
                 /\ resp[r] = UnexpectedReply(caught[r])
              \/ resp[r] = NotInitializedReply

C8_Witness ==
    \E r \in Reqs :
        /\ Done(r) /\ caught[r].type = "BadRequest" /\ resp[r].http = 500

(* C9: two handled requests with the same body and the same upstream       *)
(* outcome have the same response and HTTP status, whatever else was       *)
(* handled before or is in flight; and no step changes the module-level    *)
(* client or NPC_RESPONSE_SCHEMA.                                          *)
C9_Stateless ==
    /\ [](\A r1, r2 \in Reqs :
            (Done(r1) /\ Done(r2) /\ body[r1] = body[r2] /\ outcome[r1] = outcome[r2])
                => resp[r1] = resp[r2])
    /\ [][client' = client /\ schema' = schema /\ schema = NPC_RESPONSE_SCHEMA]_vars

C9_Witness ==
    \E r1, r2 \in Reqs :
        /\ r1 # r2 /\ Done(r1) /\ Done(r2)
        /\ body[r1] = body[r2] /\ outcome[r1] = outcome[r2]
        /\ outcome[r1].kind = "raise" /\ resp[r1] = resp[r2]

(* C10: with the client initialized, a JSON object body whose 'txt' is a   *)
(* number, boolean, null or nested object passes the missing-field check,  *)
(* fails with a TypeError before the prompt is logged, and is answered     *)
(* with HTTP 500 "Unexpected Error: ...", not the 400 envelope; no         *)
(* upstream call is made.                                                  *)
C10_NonStringTxtIs500 ==
    \A r \in Reqs :
        (client = "Client" /\ Handled(r) /\ HasTxt(body[r])
            /\ TxtOf(body[r]).t \in {"int", "bool", "NoneType", "dict"})
            => /\ Done(r)
               /\ caught[r].type = "TypeError"
               /\ resp[r] = UnexpectedReply(caught[r])
               /\ resp[r] # MissingTxtReply
               /\ ~PromptLogged(r)
               /\ calls[r] = <<>>

C10_Witness ==
    \E r \in Reqs :
        /\ client = "Client" /\ Done(r) /\ HasTxt(body[r])
        /\ TxtOf(body[r]) = PyInt(5) /\ resp[r].http = 500

====
